---- MODULE Spec2Model ----
(***************************************************************************)
(* Lost & Found PWA server: the item store, the match store and the        *)
(* matching engine (findPotentialMatches, calculateMatchConfidence,        *)
(* calculateTextSimilarity, notifyMatches) behind POST /api/items.         *)
(***************************************************************************)
EXTENDS Integers, Sequences, FiniteSets, TLC

(***************************************************************************)
(* JavaScript Numbers.  Every score in the matching engine is an IEEE-754  *)
(* binary64 value.  A Number is modelled exactly: either zero or m * 2^e   *)
(* with a 53-bit significand m, kept as a sequence of limbs (least         *)
(* significant first) because a significand does not fit a model integer.  *)
(* All values here are finite, non-negative and normal.                    *)
(***************************************************************************)
LimbBits == 14
Base == 16384
SigBits == 53
DivShift == 70

RECURSIVE Pow2(_)
Pow2(k) == IF k = 0 THEN 1 ELSE 2 * Pow2(k - 1)

RECURSIVE Trim(_)
Trim(a) ==
  IF a = <<>> THEN a
  ELSE IF a[Len(a)] = 0 THEN Trim(SubSeq(a, 1, Len(a) - 1)) ELSE a

\* the lowest limb of a, and a without it
LowLimb(a) == IF a = <<>> THEN 0 ELSE Head(a)
HighLimbs(a) == IF a = <<>> THEN a ELSE Tail(a)

RECURSIVE BigAddC(_, _, _)
BigAddC(a, b, c) ==
  IF a = <<>> /\ b = <<>> THEN (IF c = 0 THEN <<>> ELSE <<c>>)
  ELSE <<(LowLimb(a) + LowLimb(b) + c) % Base>>
       \o BigAddC(HighLimbs(a), HighLimbs(b), (LowLimb(a) + LowLimb(b) + c) \div Base)

BigAdd(a, b) == BigAddC(a, b, 0)

RECURSIVE BigMulSmallC(_, _, _)
BigMulSmallC(a, k, c) ==
  IF a = <<>> THEN (IF c = 0 THEN <<>> ELSE <<c>>)
  ELSE <<(Head(a) * k + c) % Base>>
       \o BigMulSmallC(Tail(a), k, (Head(a) * k + c) \div Base)

BigMulSmall(a, k) == Trim(BigMulSmallC(a, k, 0))

\* a shifted up by one limb
ShiftLimb(a) == IF a = <<>> THEN a ELSE <<0>> \o a

RECURSIVE BigMul(_, _)
BigMul(a, b) ==
  IF b = <<>> THEN <<>>
  ELSE BigAdd(BigMulSmall(a, Head(b)), ShiftLimb(BigMul(a, Tail(b))))

\* quotient q and remainder r of a by a divisor below Base, from limb i down;
\* r is the remainder and q the quotient of the limbs above i
RECURSIVE BigDivSmallR(_, _, _, _, _)
BigDivSmallR(a, d, i, r, q) ==
  IF i = 0 THEN [q |-> Trim(q), r |-> r]
  ELSE BigDivSmallR(a, d, i - 1, (r * Base + a[i]) % d,
                    <<(r * Base + a[i]) \div d>> \o q)

BigDivSmall(a, d) == BigDivSmallR(a, d, Len(a), 0, <<>>)

RECURSIVE BigCmpAt(_, _, _)
BigCmpAt(a, b, i) ==
  IF i = 0 THEN 0
  ELSE IF a[i] > b[i] THEN 1
  ELSE IF a[i] < b[i] THEN -1
  ELSE BigCmpAt(a, b, i - 1)

BigCmp(a, b) ==
  IF Len(a) > Len(b) THEN 1
  ELSE IF Len(a) < Len(b) THEN -1
  ELSE BigCmpAt(a, b, Len(a))

RECURSIVE SmallBitLen(_)
SmallBitLen(x) == IF x = 0 THEN 0 ELSE 1 + SmallBitLen(x \div 2)

BitLen(a) ==
  IF a = <<>> THEN 0 ELSE (Len(a) - 1) * LimbBits + SmallBitLen(a[Len(a)])

ShiftLeft(a, s) ==
  IF a = <<>> THEN a
  ELSE [i \in 1..(s \div LimbBits) |-> 0] \o BigMulSmall(a, Pow2(s % LimbBits))

\* a without its k lowest limbs
DropLimbs(a, k) == IF k >= Len(a) THEN <<>> ELSE SubSeq(a, k + 1, Len(a))

ShiftRight(a, s) ==
  BigDivSmall(DropLimbs(a, s \div LimbBits), Pow2(s % LimbBits)).q

\* the k lowest limbs of a and the part below p of the next one
KeepLimbs(a, k, p) ==
  IF k >= Len(a) THEN a ELSE SubSeq(a, 1, k) \o <<a[k + 1] % p>>

LowBits(a, s) == Trim(KeepLimbs(a, s \div LimbBits, Pow2(s % LimbBits)))

Zero == [m |-> <<>>, e |-> 0]

\* -1, 0, 1 as the s bits dropped from n are below, equal to, above one half
HalfCmp(n, s) == BigCmp(LowBits(n, s), ShiftLeft(<<1>>, s - 1))

\* the quotient q rounded by what was dropped (c from HalfCmp), ties to even
RoundQuotient(q, c, sticky) ==
  IF c > 0 \/ (c = 0 /\ (sticky \/ q[1] % 2 = 1)) THEN BigAdd(q, <<1>>) ELSE q

\* rounding up may carry into a 54th bit
Renormalize(q, e) ==
  IF BitLen(q) > SigBits THEN [m |-> ShiftRight(q, 1), e |-> e + 1]
  ELSE [m |-> q, e |-> e]

\* n has len bits
RoundToLength(n, e, sticky, len) ==
  IF len <= SigBits
  THEN [m |-> ShiftLeft(n, SigBits - len), e |-> e - (SigBits - len)]
  ELSE Renormalize(RoundQuotient(ShiftRight(n, len - SigBits),
                                 HalfCmp(n, len - SigBits), sticky),
                   e + (len - SigBits))

\* round n * 2^e (sticky: a non-zero part below n was dropped) to nearest, ties to even
RoundNearestEven(n, e, sticky) == RoundToLength(n, e, sticky, BitLen(n))

RoundDivision(res) == RoundNearestEven(res.q, -DivShift, res.r # 0)

\* the Number n / d for integers 0 <= n < Base, 0 < d < Base (JS `/`, and decimal literals)
NumDiv(n, d) ==
  IF n = 0 THEN Zero
  ELSE RoundDivision(BigDivSmall(ShiftLeft(<<n>>, DivShift), d))

\* JS `*`
NumMul(x, y) ==
  IF x.m = <<>> \/ y.m = <<>> THEN Zero
  ELSE RoundNearestEven(BigMul(x.m, y.m), x.e + y.e, FALSE)

\* the smaller of two exponents
MinExp(e1, e2) == IF e1 < e2 THEN e1 ELSE e2

AddAligned(x, y, e) ==
  RoundNearestEven(BigAdd(ShiftLeft(x.m, x.e - e), ShiftLeft(y.m, y.e - e)), e, FALSE)

\* JS `+`
NumAdd(x, y) ==
  IF x.m = <<>> THEN y
  ELSE IF y.m = <<>> THEN x
  ELSE AddAligned(x, y, MinExp(x.e, y.e))

CmpAligned(x, y, e) ==
  BigCmp(ShiftLeft(x.m, x.e - e), ShiftLeft(y.m, y.e - e))

\* -1, 0, 1 as x is below, equal to, above y
NumCmp(x, y) ==
  IF x.m = <<>> /\ y.m = <<>> THEN 0
  ELSE IF x.m = <<>> THEN -1
  ELSE IF y.m = <<>> THEN 1
  ELSE CmpAligned(x, y, MinExp(x.e, y.e))

\* JS `>`
NumGt(x, y) == NumCmp(x, y) > 0

\* Math.min
NumMin(x, y) == IF NumCmp(x, y) <= 0 THEN x ELSE y


(***************************************************************************)
(* Texts.  A string is a sequence of characters; the character " " is      *)
(* whitespace.  Words that only ever occur whole in the request bodies     *)
(* below are written as one multi-letter character ("iPhone"), so a token  *)
(* is the sequence of characters between two runs of whitespace.           *)
(***************************************************************************)
SP == " "

\* String.prototype.toLowerCase, character by character
LowerChar(ch) ==
  CASE ch = "A" -> "a"
    [] ch = "B" -> "b"
    [] ch = "iPhone" -> "iphone"
    [] ch = "Pro" -> "pro"
    [] ch = "Black" -> "black"
    [] ch = "University" -> "university"
    [] ch = "Library," -> "library,"
    [] ch = "Floor" -> "floor"
    [] ch = "Blue" -> "blue"
    [] ch = "Backpack" -> "backpack"
    [] ch = "Navy" -> "navy"
    [] ch = "Jansport" -> "jansport"
    [] ch = "Student" -> "student"
    [] ch = "Center" -> "center"
    [] ch = "Cafeteria" -> "cafeteria"
    [] OTHER -> ch

toLowerCase(text) == [i \in 1..Len(text) |-> LowerChar(text[i])]

\* String.prototype.split(/\s+/): cut at every maximal run of whitespace; a
\* leading or trailing run leaves an empty token, the empty string gives <<"">>
RECURSIVE SplitFrom(_, _, _, _)
SplitFrom(text, i, cur, acc) ==
  IF i > Len(text) THEN Append(acc, cur)
  ELSE IF text[i] = SP
       THEN IF i > 1 /\ text[i - 1] = SP
            THEN SplitFrom(text, i + 1, cur, acc)
            ELSE SplitFrom(text, i + 1, <<>>, Append(acc, cur))
       ELSE SplitFrom(text, i + 1, Append(cur, text[i]), acc)

split(text) == SplitFrom(text, 1, <<>>, <<>>)

\* Array.prototype.includes
includes(words, word) == \E i \in 1..Len(words) : words[i] = word

Elems(words) == {words[i] : i \in 1..Len(words)}

\* words1.filter(word => words2.includes(word))
intersection(words1, words2) == SelectSeq(words1, LAMBDA word : includes(words2, word))

\* [...new Set([...words1, ...words2])]
union(words1, words2) == Elems(words1) \cup Elems(words2)

\* intersection.length / union.length
similarityOfWords(words1, words2) ==
  NumDiv(Len(intersection(words1, words2)), Cardinality(union(words1, words2)))

calculateTextSimilarity(text1, text2) ==
  similarityOfWords(split(toLowerCase(text1)), split(toLowerCase(text2)))

Weight03 == NumDiv(3, 10)
Weight04 == NumDiv(4, 10)
Weight02 == NumDiv(2, 10)
Weight01 == NumDiv(1, 10)
Threshold == NumDiv(6, 10)
One == NumDiv(1, 1)

\* `confidence` after the category test
categoryScore(item1, item2) ==
  IF item1.category = item2.category THEN NumAdd(Zero, Weight03) ELSE Zero

titleSimilarity(item1, item2) == calculateTextSimilarity(item1.title, item2.title)
descSimilarity(item1, item2) ==
  calculateTextSimilarity(item1.description, item2.description)
locationSimilarity(item1, item2) ==
  calculateTextSimilarity(item1.location, item2.location)

\* the value of `confidence` before the return statement
weightedSum(item1, item2) ==
  NumAdd(NumAdd(NumAdd(categoryScore(item1, item2),
                       NumMul(titleSimilarity(item1, item2), Weight04)),
                NumMul(descSimilarity(item1, item2), Weight02)),
         NumMul(locationSimilarity(item1, item2), Weight01))

calculateMatchConfidenceNoClamp(item1, item2) == weightedSum(item1, item2)

calculateMatchConfidence(item1, item2) == NumMin(weightedSum(item1, item2), One)

(***************************************************************************)
(* Server state                                                            *)
(***************************************************************************)
VARIABLES
  users,        \* storage.users, in insertion order
  items,        \* storage.items (a Map), in insertion order
  matches,      \* storage.matches (a Map), in insertion order
  emitted,      \* events handed to io.to(room).emit, in order
  awaiting,     \* POST /api/items handlers suspended at `await findPotentialMatches`
  nextId,       \* number of ids generateId has handed out
  now,          \* the wall clock read by new Date()
  lastCall,     \* the most recent findPotentialMatches call: its argument, what it scored, what it returned
  response,     \* the most recent HTTP response
  probe,        \* a direct call of calculateTextSimilarity: its arguments and its result
  registering,  \* POST /api/auth/register handlers suspended at `await bcrypt.hash`
  scanLog,      \* every findPotentialMatches call so far: its argument and the candidates it scored
  rerun         \* a second findPotentialMatches call on the item of lastCall: what it scored and returned

vars == <<users, items, matches, emitted, awaiting, nextId, now, lastCall, response, probe,
          registering, scanLog, rerun>>

MaxPosts == 2       \* POST /api/items requests in one run
MaxClock == 3       \* the clock stops advancing here
MaxResolved == 1    \* items resolved from outside in one run

\* the clock at server start, in days; the sample items are dated 2 and 1 days back
StartDay == 2

\* generateId: the k-th call returns k (a timestamp plus a random suffix in the
\* source; taken to be fresh on every call)
generateIdCoarse(k) == 4

generateId(k) == k + 1

SampleAdmin == [id |-> 1, email |-> "admin@lostfound.com", role |-> "admin"]

SampleItems == <<
  [id |-> 2,
   title |-> <<"iPhone", SP, "13", SP, "Pro">>,
   description |-> <<"Black", SP, "iPhone", SP, "13", SP, "Pro", SP, "with", SP,
                     "cracked", SP, "screen", SP, "protector">>,
   category |-> "electronics", type |-> "lost",
   location |-> <<"University", SP, "Library,", SP, "2nd", SP, "Floor">>,
   userId |-> 1, status |-> "active",
   createdAt |-> StartDay - 2, updatedAt |-> StartDay - 2],
  [id |-> 3,
   title |-> <<"Blue", SP, "Backpack">>,
   description |-> <<"Navy", SP, "blue", SP, "Jansport", SP, "backpack", SP, "with", SP,
                     "laptop", SP, "compartment">>,
   category |-> "bags", type |-> "found",
   location |-> <<"Student", SP, "Center", SP, "Cafeteria">>,
   userId |-> 1, status |-> "active",
   createdAt |-> StartDay - 1, updatedAt |-> StartDay - 1] >>

NoCall == [item |-> 0, store |-> <<>>, before |-> <<>>, candidates |-> <<>>,
           scores |-> <<>>, returned |-> <<>>]
NoResponse == [route |-> "none", status |-> 0]
NoProbe == [text1 |-> <<>>, text2 |-> <<>>, done |-> FALSE, result |-> Zero]
NoRerun == [done |-> FALSE, first |-> NoCall, before |-> <<>>, scores |-> <<>>, returned |-> <<>>]

\* initializeSampleData
Init ==
  /\ users = <<SampleAdmin>>
  /\ items = SampleItems
  /\ matches = <<>>
  /\ emitted = <<>>
  /\ awaiting = <<>>
  /\ nextId = 3
  /\ now = StartDay
  /\ lastCall = NoCall
  /\ response = NoResponse
  /\ probe = NoProbe
  /\ registering = <<>>
  /\ scanLog = <<>>
  /\ rerun = NoRerun

(***************************************************************************)
(* Request bodies of POST /api/items.  A field that is absent and a field  *)
(* that is the empty string are both falsy at the validation; both are     *)
(* written as the empty value.  Every field that is present is a string.   *)
(***************************************************************************)
BodyA == [title |-> <<"iPhone", SP, "13", SP, "black">>,
          description |-> <<"cracked", SP, "screen">>,
          category |-> "electronics", type |-> "lost", location |-> <<"library">>]
BodyB == [title |-> <<"black", SP, "iPhone">>,
          description |-> <<"screen", SP, "is", SP, "cracked">>,
          category |-> "electronics", type |-> "found",
          location |-> <<"library", SP, "2nd", SP, "floor">>]
\* a type that is neither 'lost' nor 'found'
BodyM == [title |-> <<"iPhone", SP, "13", SP, "Pro">>,
          description |-> <<"cracked", SP, "screen">>,
          category |-> "electronics", type |-> "misc", location |-> <<"library">>]
\* against BodyA: title 1/4, description 1/2, location 1: the Number 0.6
BodyQ == [title |-> <<"iPhone", SP, "case">>,
          description |-> <<"cracked">>,
          category |-> "electronics", type |-> "found", location |-> <<"library">>]
\* against BodyA: title 1/4, description 1, location 0: the Number 0.6000000000000001
BodyR == [title |-> <<"iPhone", SP, "case">>,
          description |-> <<"cracked", SP, "screen">>,
          category |-> "electronics", type |-> "found", location |-> <<"gym">>]
\* repeated words
BodyD == [title |-> <<"black", SP, "black", SP, "iPhone", SP, "13">>,
          description |-> <<"cracked", SP, "cracked", SP, "screen">>,
          category |-> "electronics", type |-> "found", location |-> <<"library">>]
\* no title
BodyV == [BodyB EXCEPT !.title = <<>>]

Bodies == {BodyA, BodyB, BodyM, BodyQ, BodyR, BodyD, BodyV}

\* the users that hold a token authenticateToken accepts
TokenUsers == {users[i].id : i \in 1..Len(users)}


(***************************************************************************)
(* Utility functions                                                       *)
(***************************************************************************)
\* Map.prototype.set on a Map kept in insertion order: an existing key keeps
\* its place and gets the new value, a new key goes last
MapSet(map, key, value) ==
  IF \E i \in 1..Len(map) : map[i].id = key
  THEN [i \in 1..Len(map) |-> IF map[i].id = key THEN value ELSE map[i]]
  ELSE Append(map, value)

\* Map.prototype.get; NoItem stands for undefined
NoItem == [id |-> 0]
MapGet(map, key) ==
  IF \E i \in 1..Len(map) : map[i].id = key
  THEN map[CHOOSE i \in 1..Len(map) : map[i].id = key]
  ELSE NoItem

Involves(match, itemId) == match.lostItemId = itemId \/ match.foundItemId = itemId

getMatchCount(itemId) ==
  Len(SelectSeq(matches, LAMBDA match : Involves(match, itemId)))

getItemMatches(itemId) ==
  LET all == SelectSeq(matches, LAMBDA match : Involves(match, itemId))
  IN  SubSeq(all, 1, IF Len(all) < 5 THEN Len(all) ELSE 5)

(***************************************************************************)
(* The matching engine                                                     *)
(***************************************************************************)
sameType(item) == item.type

oppositeType(item) == IF item.type = "lost" THEN "found" ELSE "lost"

potentialMatchesAnyStatus(item, store) ==
  SelectSeq(store, LAMBDA otherItem :
    /\ otherItem.type = oppositeType(item)
    /\ otherItem.category = item.category)

potentialMatches(item, store) ==
  SelectSeq(store, LAMBDA otherItem :
    /\ otherItem.type = oppositeType(item)
    /\ otherItem.category = item.category
    /\ otherItem.status = "active")

aboveThresholdInclusive(confidence) == NumCmp(confidence, Threshold) >= 0

\* the test `confidence > 0.6`
aboveThreshold(confidence) == NumGt(confidence, Threshold)

matchRecordSwapped(item, match, confidence, matchId, clock) ==
  [id |-> matchId,
   lostItemId |-> IF item.type = "found" THEN item.id ELSE match.id,
   foundItemId |-> IF item.type = "lost" THEN item.id ELSE match.id,
   confidence |-> confidence,
   status |-> "pending",
   createdAt |-> clock,
   method |-> "ai"]

matchRecord(item, match, confidence, matchId, clock) ==
  [id |-> matchId,
   lostItemId |-> IF item.type = "lost" THEN item.id ELSE match.id,
   foundItemId |-> IF item.type = "found" THEN item.id ELSE match.id,
   confidence |-> confidence,
   status |-> "pending",
   createdAt |-> clock,
   method |-> "ai"]

\* the loop over potentialMatches from its i-th element on, k ids handed out
\* so far: the records it creates, in order
RECURSIVE scoreLoop(_, _, _, _, _)

\* the loop body for the i-th candidate, once its confidence is computed
scoreCandidate(item, candidates, i, k, clock, confidence) ==
  IF aboveThreshold(confidence)
  THEN <<matchRecord(item, candidates[i], confidence, generateId(k), clock)>>
       \o scoreLoop(item, candidates, i + 1, k + 1, clock)
  ELSE scoreLoop(item, candidates, i + 1, k, clock)

scoreLoop(item, candidates, i, k, clock) ==
  IF i > Len(candidates) THEN <<>>
  ELSE scoreCandidate(item, candidates, i, k, clock,
                      calculateMatchConfidence(item, candidates[i]))

\* the records findPotentialMatches(item) creates and returns
findPotentialMatches(item, store, k, clock) ==
  scoreLoop(item, potentialMatches(item, store), 1, k, clock)

RECURSIVE setAllOncePerPair(_, _)
setAllOncePerPair(map, records) ==
  IF records = <<>> THEN map
  ELSE setAllOncePerPair(
         IF \E i \in 1..Len(map) : /\ map[i].lostItemId = Head(records).lostItemId
                                   /\ map[i].foundItemId = Head(records).foundItemId
         THEN map
         ELSE Append(map, Head(records)),
         Tail(records))

\* storage.matches.set(matchId, matchRecord) for every record the loop creates
RECURSIVE setAll(_, _)
setAll(map, records) ==
  IF records = <<>> THEN map
  ELSE setAll(MapSet(map, Head(records).id, Head(records)), Tail(records))

RECURSIVE notifyMatchesToSubmitter(_, _, _)
notifyMatchesToSubmitter(item, found, store) ==
  IF found = <<>> THEN <<>>
  ELSE <<[to |-> item.userId, event |-> "new_match", match |-> Head(found),
          item |-> item.id,
          targetItem |-> IF Head(found).lostItemId = item.id
                         THEN Head(found).foundItemId ELSE Head(found).lostItemId]>>
       \o notifyMatchesToSubmitter(item, Tail(found), store)

\* the events notifyMatches(item, matches) emits, in order
RECURSIVE notifyMatches(_, _, _)
notifyMatches(item, found, store) ==
  IF found = <<>> THEN <<>>
  ELSE LET match == Head(found)
           targetItemId == IF match.lostItemId = item.id
                           THEN match.foundItemId ELSE match.lostItemId
           targetItem == MapGet(store, targetItemId)
       IN  (IF targetItem # NoItem
            THEN <<[to |-> targetItem.userId, event |-> "new_match",
                    match |-> match, item |-> item.id, targetItem |-> targetItem.id]>>
            ELSE <<>>)
           \o notifyMatches(item, Tail(found), store)

(***************************************************************************)
(* POST /api/items                                                         *)
(***************************************************************************)
InvalidIgnoringTitle(body) ==
  \/ body.description = <<>>
  \/ body.category = ""
  \/ body.type = ""
  \/ body.location = <<>>

\* the validation `!title || !description || !category || !type || !location`
Invalid(body) ==
  \/ body.title = <<>>
  \/ body.description = <<>>
  \/ body.category = ""
  \/ body.type = ""
  \/ body.location = <<>>

\* a request that fails the validation
PostItemRejected(body) ==
  /\ Invalid(body)
  /\ response' = [route |-> "POST /api/items", status |-> 400]
  /\ UNCHANGED <<users, items, matches, emitted, awaiting, nextId, now, lastCall, probe,
               registering, scanLog, rerun>>

\* the item object the handler builds
newItem(body, userId, itemId, clock) ==
  [id |-> itemId,
   title |-> body.title, description |-> body.description,
   category |-> body.category, type |-> body.type,
   location |-> body.location,
   userId |-> userId, status |-> "active",
   createdAt |-> clock, updatedAt |-> clock]

\* the confidence of every candidate, in order
scoreAll(item, candidates) ==
  [i \in 1..Len(candidates) |-> calculateMatchConfidence(item, candidates[i])]

\* the state once findPotentialMatches(item) has run on `store` and created `created`
StoreScan(item, store, candidates, created) ==
  /\ items' = store
  /\ matches' = setAll(matches, created)
  /\ nextId' = nextId + 1 + Len(created)
  /\ awaiting' = Append(awaiting, [item |-> item, matches |-> created])
  /\ lastCall' = [item |-> item.id,
                  store |-> store,
                  before |-> matches,
                  candidates |-> [i \in 1..Len(candidates) |-> candidates[i].id],
                  scores |-> scoreAll(item, candidates),
                  returned |-> created]
  /\ scanLog' = Append(scanLog, [item |-> item.id,
                                 candidates |-> [i \in 1..Len(candidates) |-> candidates[i].id]])

\* storage.items.set(itemId, item), then findPotentialMatches(item)
StoreItem(item, store) ==
  StoreScan(item, store, potentialMatches(item, store),
            findPotentialMatches(item, store, nextId + 1, now))

\* the handler up to `await findPotentialMatches(item)`: the item is stored,
\* the candidates are scored and the matches are stored
PostItem(body, userId) ==
  /\ ~Invalid(body)
  /\ Len(items) < Len(SampleItems) + MaxPosts
  /\ StoreItem(newItem(body, userId, generateId(nextId), now),
               MapSet(items, generateId(nextId),
                      newItem(body, userId, generateId(nextId), now)))
  /\ UNCHANGED <<users, emitted, now, response, probe, registering, rerun>>

\* the rest of the handler, once the await resumes: notify and respond.
\* The awaits are resumed in the order they were reached.
PostItemResume ==
  /\ awaiting # <<>>
  /\ LET req == Head(awaiting)
     IN  /\ emitted' = IF Len(req.matches) > 0
                       THEN emitted \o notifyMatches(req.item, req.matches, items)
                       ELSE emitted
         /\ response' = [route |-> "POST /api/items", status |-> 201, item |-> req.item.id]
  /\ awaiting' = Tail(awaiting)
  /\ UNCHANGED <<users, items, matches, nextId, now, lastCall, probe,
               registering, scanLog, rerun>>


(***************************************************************************)
(* The read routes.  None of them writes to storage; each is modelled by   *)
(* the part of its response that depends on the item and match stores.     *)
(***************************************************************************)
\* Array.prototype.sort with (a, b) => new Date(b.createdAt) - new Date(a.createdAt):
\* newest first, stable
RECURSIVE insertDesc(_, _)
insertDesc(sorted, x) ==
  IF sorted = <<>> THEN <<x>>
  ELSE IF Head(sorted).createdAt < x.createdAt THEN <<x>> \o sorted
  ELSE <<Head(sorted)>> \o insertDesc(Tail(sorted), x)

RECURSIVE sortDesc(_)
sortDesc(list) ==
  IF list = <<>> THEN <<>>
  ELSE insertDesc(sortDesc(SubSeq(list, 1, Len(list) - 1)), list[Len(list)])

slice(list, n) == SubSeq(list, 1, IF Len(list) < n THEN Len(list) ELSE n)

withMatchCount(list) ==
  [i \in 1..Len(list) |-> [id |-> list[i].id, matchCount |-> getMatchCount(list[i].id)]]

\* GET /api/items with the category and type filters ("" leaves a filter out),
\* the default sort and the default page
ListItems(category, type) ==
  /\ LET byCategory == IF category # ""
                       THEN SelectSeq(items, LAMBDA item : item.category = category)
                       ELSE items
         byType == IF type # ""
                   THEN SelectSeq(byCategory, LAMBDA item : item.type = type)
                   ELSE byCategory
     IN  response' = [route |-> "GET /api/items", status |-> 200,
                      items |-> withMatchCount(slice(sortDesc(byType), 20)),
                      total |-> Len(byType)]
  /\ UNCHANGED <<users, items, matches, emitted, awaiting, nextId, now, lastCall, probe,
               registering, scanLog, rerun>>

\* GET /api/items/recent
RecentItems(limit) ==
  /\ response' = [route |-> "GET /api/items/recent", status |-> 200,
                  items |-> withMatchCount(slice(sortDesc(items), limit))]
  /\ UNCHANGED <<users, items, matches, emitted, awaiting, nextId, now, lastCall, probe,
               registering, scanLog, rerun>>

\* GET /api/items/:id
GetItem(id) ==
  /\ response' = IF MapGet(items, id) = NoItem
                 THEN [route |-> "GET /api/items/:id", status |-> 404]
                 ELSE [route |-> "GET /api/items/:id", status |-> 200, item |-> id,
                       matchCount |-> getMatchCount(id),
                       matches |-> getItemMatches(id)]
  /\ UNCHANGED <<users, items, matches, emitted, awaiting, nextId, now, lastCall, probe,
               registering, scanLog, rerun>>

\* GET /api/dashboard/summary
DashboardSummary(userId) ==
  /\ LET userItems == SelectSeq(items, LAMBDA item : item.userId = userId)
         mine == SelectSeq(matches, LAMBDA match :
                   \E i \in 1..Len(userItems) : Involves(match, userItems[i].id))
         recoveredItems == SelectSeq(userItems, LAMBDA item : item.status = "recovered")
     IN  response' = [route |-> "GET /api/dashboard/summary", status |-> 200,
                      myItems |-> Len(userItems), matches |-> Len(mine),
                      recoveredItems |-> Len(recoveredItems)]
  /\ UNCHANGED <<users, items, matches, emitted, awaiting, nextId, now, lastCall, probe,
               registering, scanLog, rerun>>

\* GET /api/stats/platform
PlatformStats ==
  /\ response' = [route |-> "GET /api/stats/platform", status |-> 200,
                  totalUsers |-> Len(users), totalItems |-> Len(items),
                  successfulMatches |->
                    Len(SelectSeq(matches, LAMBDA match : match.status = "confirmed"))]
  /\ UNCHANGED <<users, items, matches, emitted, awaiting, nextId, now, lastCall, probe,
               registering, scanLog, rerun>>

\* time passes between two events
Tick ==
  /\ now < MaxClock
  /\ now' = now + 1
  /\ UNCHANGED <<users, items, matches, emitted, awaiting, nextId, lastCall, response, probe,
               registering, scanLog, rerun>>

Categories == {"", "electronics"}
Types == {"", "lost"}
Limits == {1, 6}
ItemIds == 2..(nextId + 1)

\* item submissions
Next ==
  \/ \E body \in Bodies : PostItemRejected(body)
  \/ \E body \in Bodies, userId \in TokenUsers : PostItem(body, userId)
  \/ PostItemResume
  \/ Tick

Spec == Init /\ [][Next]_vars

\* item submissions and the read routes
NextRoutes ==
  \/ \E body \in Bodies : PostItemRejected(body)
  \/ \E body \in Bodies, userId \in TokenUsers : PostItem(body, userId)
  \/ PostItemResume
  \/ \E category \in Categories, type \in Types : ListItems(category, type)
  \/ \E limit \in Limits : RecentItems(limit)
  \/ \E id \in ItemIds : GetItem(id)
  \/ \E userId \in TokenUsers : DashboardSummary(userId)
  \/ PlatformStats

SpecRoutes == Init /\ [][NextRoutes]_vars


(***************************************************************************)
(* Item status.  No route of the server writes an item's status; the       *)
(* candidate filter and the dashboard read it.  SpecStatus adds the        *)
(* resolution of an item from outside the server, so that the filter's     *)
(* status test has something to reject.                                    *)
(***************************************************************************)
Resolutions == {"recovered", "removed"}

ResolveItem(id, status) ==
  /\ Len(SelectSeq(items, LAMBDA item : item.status # "active")) < MaxResolved
  /\ MapGet(items, id) # NoItem
  /\ MapGet(items, id).status = "active"
  /\ items' = MapSet(items, id, [MapGet(items, id) EXCEPT !.status = status,
                                                          !.updatedAt = now])
  /\ UNCHANGED <<users, matches, emitted, awaiting, nextId, now, lastCall, response, probe,
               registering, scanLog, rerun>>

NextStatus ==
  \/ \E body \in Bodies : PostItemRejected(body)
  \/ \E body \in Bodies, userId \in TokenUsers : PostItem(body, userId)
  \/ PostItemResume
  \/ \E id \in ItemIds, status \in Resolutions : ResolveItem(id, status)

SpecStatus == Init /\ [][NextStatus]_vars

(***************************************************************************)
(* calculateTextSimilarity on its own: every pair of texts of at most      *)
(* MaxLen characters over Chars.                                           *)
(***************************************************************************)
MaxLen == 3
Chars == {"a", "A", "b", SP}
Texts == UNION {[1..k -> Chars] : k \in 0..MaxLen}

InitText ==
  /\ users = <<SampleAdmin>>
  /\ items = SampleItems
  /\ matches = <<>>
  /\ emitted = <<>>
  /\ awaiting = <<>>
  /\ nextId = 3
  /\ now = StartDay
  /\ lastCall = NoCall
  /\ response = NoResponse
  /\ probe \in [text1 : Texts, text2 : Texts, done : {FALSE}, result : {Zero}]
  /\ registering = <<>>
  /\ scanLog = <<>>
  /\ rerun = NoRerun

CallTextSimilarity ==
  /\ ~probe.done
  /\ probe' = [probe EXCEPT !.done = TRUE,
                            !.result = calculateTextSimilarity(probe.text1, probe.text2)]
  /\ UNCHANGED <<users, items, matches, emitted, awaiting, nextId, now, lastCall, response,
               registering, scanLog, rerun>>

NextText == CallTextSimilarity

SpecText == InitText /\ [][NextText]_vars

(***************************************************************************)
(* POST /api/auth/register.  The handler checks the body and the stored    *)
(* emails, awaits bcrypt.hash, and only then stores the user: the requests *)
(* suspended at the await are in `registering`, and the hashes may         *)
(* complete in any order.                                                  *)
(***************************************************************************)
MaxRegistrations == 2   \* registrations that pass the checks in one run

RegBodies ==
  [name : {"n"}, email : {"", "a@x", "admin@lostfound.com"}, password : {"p"}]
  \cup [name : {""}, email : {"a@x"}, password : {"p"}]

\* the validation `!name || !email || !password`
InvalidRegistration(body) == body.name = "" \/ body.email = "" \/ body.password = ""

\* Array.from(storage.users.values()).find(u => u.email === email), as a truth value
existingUser(email) == \E i \in 1..Len(users) : users[i].email = email

\* a request that fails the validation or finds its email taken
RegisterRejected(body) ==
  /\ InvalidRegistration(body) \/ existingUser(body.email)
  /\ response' = [route |-> "POST /api/auth/register", status |-> 400,
                  error |-> IF InvalidRegistration(body)
                            THEN "Name, email, and password are required"
                            ELSE "User already exists"]
  /\ UNCHANGED <<users, items, matches, emitted, awaiting, nextId, now, lastCall, probe,
               registering, scanLog, rerun>>

\* the handler up to `await bcrypt.hash(password, 10)`
Register(body) ==
  /\ ~InvalidRegistration(body)
  /\ ~existingUser(body.email)
  /\ Len(users) + Len(registering) < Len(<<SampleAdmin>>) + MaxRegistrations
  /\ registering' = Append(registering, body)
  /\ UNCHANGED <<users, items, matches, emitted, awaiting, nextId, now, lastCall, response,
               probe, scanLog, rerun>>

\* seq without its i-th element
RemoveAt(seq, i) == SubSeq(seq, 1, i - 1) \o SubSeq(seq, i + 1, Len(seq))

\* the user object the handler builds
newUser(body, userId) == [id |-> userId, email |-> body.email, role |-> "user"]

\* the rest of the handler of the i-th suspended request, once its hash is
\* ready: the user is stored under a fresh id
RegisterResume(i) ==
  /\ i \in 1..Len(registering)
  /\ users' = MapSet(users, generateId(nextId), newUser(registering[i], generateId(nextId)))
  /\ nextId' = nextId + 1
  /\ registering' = RemoveAt(registering, i)
  /\ response' = [route |-> "POST /api/auth/register", status |-> 201,
                  user |-> generateId(nextId)]
  /\ UNCHANGED <<items, matches, emitted, awaiting, now, lastCall, probe, scanLog, rerun>>

\* registrations, and the registered users submitting the items A and B
NextRegister ==
  \/ \E body \in RegBodies : RegisterRejected(body)
  \/ \E body \in RegBodies : Register(body)
  \/ \E i \in 1..MaxRegistrations : RegisterResume(i)
  \/ \E body \in {BodyA, BodyB}, userId \in TokenUsers : PostItem(body, userId)
  \/ PostItemResume

SpecRegister == Init /\ [][NextRegister]_vars


(***************************************************************************)
(* findPotentialMatches called a second time on the item of the most       *)
(* recent call, the item store unchanged since.  No route does this; it is *)
(* the function run again on the same input.                               *)
(***************************************************************************)
\* the state once the second call has scored `candidates` and created `created`
StoreScanAgain(item, candidates, created) ==
  /\ matches' = setAll(matches, created)
  /\ nextId' = nextId + Len(created)
  /\ rerun' = [done |-> TRUE,
               first |-> lastCall,
               before |-> matches,
               scores |-> scoreAll(item, candidates),
               returned |-> created]
  /\ scanLog' = Append(scanLog, [item |-> item.id,
                                 candidates |-> [i \in 1..Len(candidates) |-> candidates[i].id]])

ScanAgainOn(item) ==
  StoreScanAgain(item, potentialMatches(item, items),
                 findPotentialMatches(item, items, nextId, now))

ScanAgain ==
  /\ lastCall.item # 0
  /\ lastCall.store = items
  /\ ~rerun.done
  /\ ScanAgainOn(MapGet(items, lastCall.item))
  /\ UNCHANGED <<users, items, emitted, awaiting, now, lastCall, response, probe, registering>>

NextRerun ==
  \/ \E body \in Bodies : PostItemRejected(body)
  \/ \E body \in Bodies, userId \in TokenUsers : PostItem(body, userId)
  \/ PostItemResume
  \/ ScanAgain

SpecRerun == Init /\ [][NextRerun]_vars


(***************************************************************************)
(* Properties                                                              *)
(***************************************************************************)
MatchSet == {matches[i] : i \in 1..Len(matches)}
ItemSet == {items[i] : i \in 1..Len(items)}

\* C1: every stored match record has lostItemId naming a stored item of type
\* 'lost', foundItemId naming a stored item of type 'found', and the two items
\* have the same category.
C1_MatchPairsLostWithFound ==
  \A m \in MatchSet :
    \E lost \in ItemSet, found \in ItemSet :
      /\ lost.id = m.lostItemId /\ lost.type = "lost"
      /\ found.id = m.foundItemId /\ found.type = "found"
      /\ lost.category = found.category

\* C2: no stored match record pairs an item with itself.
C2_NoSelfMatch ==
  \A m \in MatchSet : m.lostItemId # m.foundItemId

\* C6: calculateTextSimilarity(a, b) equals calculateTextSimilarity(b, a).
C6_SimilaritySymmetric ==
  probe.done => probe.result = calculateTextSimilarity(probe.text2, probe.text1)

\* C7: calculateTextSimilarity(a, a) is exactly 1.0 for every non-empty text a.
C7_SelfSimilarityIsOne ==
  (probe.done /\ probe.text1 = probe.text2 /\ probe.text1 # <<>>) => probe.result = One

TokenSet(text) == Elems(split(toLowerCase(text)))

\* C8: calculateTextSimilarity(a, b) is the Jaccard ratio of the two token
\* sets, |A \cap B| / |A \cup B|, and lies in [0,1].
C8_SimilarityIsJaccard ==
  probe.done =>
    LET A == TokenSet(probe.text1)
        B == TokenSet(probe.text2)
    IN  /\ probe.result = NumDiv(Cardinality(A \cap B), Cardinality(A \cup B))
        /\ NumCmp(probe.result, Zero) >= 0
        /\ NumCmp(probe.result, One) <= 0


\* the argument of the most recent findPotentialMatches call and the items it
\* scored, as they were in the store during the call
Called == lastCall.item # 0
NewItem == MapGet(lastCall.store, lastCall.item)
Scored == [i \in 1..Len(lastCall.candidates) |-> MapGet(lastCall.store, lastCall.candidates[i])]
StoreAtCall == {lastCall.store[i] : i \in 1..Len(lastCall.store)}

\* C3: findPotentialMatches creates a record for a candidate exactly when the
\* pair's confidence is strictly above 0.6 (none at exactly 0.6), and it
\* returns exactly the records it created, which it appended to the match store.
C3_RecordIffAboveThreshold ==
  Called =>
    LET over == SelectSeq(Scored, LAMBDA c :
                  NumCmp(calculateMatchConfidence(NewItem, c), Threshold) = 1)
        ret  == lastCall.returned
        n    == Len(lastCall.before)
    IN  /\ Len(ret) = Len(over)
        /\ \A k \in 1..Len(ret) :
             /\ Involves(ret[k], over[k].id)
             /\ ret[k].confidence = calculateMatchConfidence(NewItem, over[k])
             /\ \A j \in 1..n : lastCall.before[j].id # ret[k].id
        /\ Len(matches) >= n + Len(ret)
        /\ SubSeq(matches, 1, n + Len(ret)) = lastCall.before \o ret

\* a candidate scored exactly 0.6 and no record was created
C3_Witness ==
  /\ Called
  /\ \E i \in 1..Len(lastCall.scores) : lastCall.scores[i] = Threshold
  /\ lastCall.returned = <<>>

\* C4: the candidates scored for a new item are exactly the stored items of the
\* opposite type, the same category and status 'active'; no candidate has the
\* new item's type, is the new item, or has a status other than 'active'.
C4_CandidatesOppositeActiveSameCategory ==
  Called =>
    LET ids == {lastCall.candidates[i] : i \in 1..Len(lastCall.candidates)}
    IN  /\ Cardinality(ids) = Len(lastCall.candidates)
        /\ \A i \in 1..Len(Scored) :
             /\ Scored[i].type # NewItem.type
             /\ Scored[i].id # NewItem.id
             /\ Scored[i].category = NewItem.category
             /\ Scored[i].status = "active"
        /\ NewItem.type = "lost" =>
             ids = {o.id : o \in {x \in StoreAtCall :
                      x.type = "found" /\ x.category = NewItem.category /\ x.status = "active"}}
        /\ NewItem.type = "found" =>
             ids = {o.id : o \in {x \in StoreAtCall :
                      x.type = "lost" /\ x.category = NewItem.category /\ x.status = "active"}}

\* a call that scored a candidate while the store held a resolved item of the
\* opposite type and the same category
C4_Witness ==
  /\ Called
  /\ NewItem.type = "found"
  /\ lastCall.candidates # <<>>
  /\ \E o \in StoreAtCall :
       o.type = "lost" /\ o.category = NewItem.category /\ o.status = "recovered"

InUnitInterval(x) == NumCmp(x, Zero) >= 0 /\ NumCmp(x, One) <= 0

SumOfWeightedScores(a, b) ==
  NumAdd(NumAdd(NumAdd(IF a.category = b.category THEN Weight03 ELSE Zero,
                       NumMul(calculateTextSimilarity(a.title, b.title), Weight04)),
                NumMul(calculateTextSimilarity(a.description, b.description), Weight02)),
         NumMul(calculateTextSimilarity(a.location, b.location), Weight01))

\* C5: every confidence computed is in [0,1], so is the confidence of every
\* stored match record, and the value is 0.3*(category equal) + 0.4*title
\* similarity + 0.2*description similarity + 0.1*location similarity, clamped
\* to at most 1.0.
C5_ConfidenceInUnitInterval ==
  /\ \A m \in MatchSet : InUnitInterval(m.confidence)
  /\ Called =>
       \A i \in 1..Len(Scored) :
         LET sum == SumOfWeightedScores(NewItem, Scored[i])
         IN  /\ InUnitInterval(lastCall.scores[i])
             /\ lastCall.scores[i] = IF NumCmp(sum, One) > 0 THEN One ELSE sum

\* a pair whose weighted sum exceeds 1.0 was scored and its record is stored
C5_Witness ==
  /\ Called
  /\ \E i \in 1..Len(Scored) :
       /\ NumCmp(SumOfWeightedScores(NewItem, Scored[i]), One) > 0
       /\ \E m \in MatchSet : Involves(m, Scored[i].id) /\ m.confidence = One

SameFields(item, body) ==
  /\ item.title = body.title
  /\ item.description = body.description
  /\ item.category = body.category
  /\ item.type = body.type
  /\ item.location = body.location

\* the store held item B as its only found electronics item when item A was submitted
ScenarioAB ==
  /\ Called
  /\ SameFields(NewItem, BodyA)
  /\ Cardinality({o \in StoreAtCall : o.type = "found" /\ o.category = "electronics"}) = 1
  /\ \E o \in StoreAtCall : SameFields(o, BodyB) /\ o.status = "active"

\* C9: with active found item B in the store, submitting lost item A returns
\* exactly one match: lostItemId = A.id, foundItemId = B.id, confidence > 0.6,
\* status 'pending', method 'ai'; the record is in the match store.
C9_EndToEndScenario ==
  ScenarioAB =>
    /\ Len(lastCall.returned) = 1
    /\ LET r == lastCall.returned[1]
           b == CHOOSE o \in StoreAtCall : SameFields(o, BodyB)
       IN  /\ r.lostItemId = NewItem.id
           /\ r.foundItemId = b.id
           /\ NumCmp(r.confidence, Threshold) > 0
           /\ r.status = "pending"
           /\ r.method = "ai"
           /\ r \in MatchSet

C9_Witness == ScenarioAB /\ lastCall.returned # <<>>

\* C10: the match store is append-only: no step removes a stored record or
\* changes one of its fields, every record enters with status 'pending' and
\* method 'ai', and no step changes a stored item.
C10_MatchStoreAppendOnly ==
  [][/\ Len(matches') >= Len(matches)
     /\ \A i \in 1..Len(matches) : matches'[i] = matches[i]
     /\ \A i \in (Len(matches) + 1)..Len(matches') :
          matches'[i].status = "pending" /\ matches'[i].method = "ai"
     /\ Len(items') >= Len(items)
     /\ \A i \in 1..Len(items) : items'[i] = items[i]]_vars

\* a record was stored, a later submission stored its item, and a read that
\* counts the record was served
C10_Witness ==
  /\ \E i \in 1..Len(matches), j \in 1..Len(items) : items[j].id > matches[i].id
  /\ response.route = "GET /api/items/:id"
  /\ response.status = 200
  /\ response.matchCount >= 1

\* the item of a match that is not the item with id itemId
OtherItemId(match, itemId) ==
  CHOOSE id \in {match.lostItemId, match.foundItemId} : id # itemId

\* one 'new_match' event per match of a suspended submission, in order, each
\* addressed to the owner of the other item
ExpectedEvents(req) ==
  [i \in 1..Len(req.matches) |->
     [to |-> MapGet(items, OtherItemId(req.matches[i], req.item.id)).userId,
      event |-> "new_match",
      match |-> req.matches[i],
      item |-> req.item.id,
      targetItem |-> OtherItemId(req.matches[i], req.item.id)]]

\* C11: when a submission resumes after the matching step, it emits nothing
\* if the step returned no match, and otherwise exactly one 'new_match' event
\* per returned match, addressed to the owner of the match's other item and
\* carrying the match, the new item and the other item; every returned match
\* is in the match store by then.
C11_NotifyOncePerMatch ==
  [][Len(awaiting') < Len(awaiting) =>
       /\ emitted' = emitted \o ExpectedEvents(Head(awaiting))
       /\ \A i \in 1..Len(Head(awaiting).matches) : Head(awaiting).matches[i] \in MatchSet
       /\ response'.status = 201]_vars

\* an event was delivered to a user other than the one who submitted the item
C11_Witness ==
  /\ response.route = "POST /api/items"
  /\ response.status = 201
  /\ \E i \in 1..Len(emitted) :
       /\ emitted[i].item = response.item
       /\ emitted[i].to # MapGet(items, emitted[i].item).userId
       /\ emitted[i].to = MapGet(items, emitted[i].targetItem).userId

\* a required field is absent or empty
LacksRequiredField(item) ==
  \/ item.title = <<>>
  \/ item.description = <<>>
  \/ item.category = ""
  \/ item.type = ""
  \/ item.location = <<>>

\* C12: a submission that lacks a required field gets an error response and
\* leaves the item store, the match store and the emitted events unchanged,
\* and it is never scored: no stored item and no argument of
\* findPotentialMatches lacks a required field.
C12_InvalidItemRejected ==
  /\ [](\A i \in 1..Len(items) : ~LacksRequiredField(items[i]))
  /\ [](\A i \in 1..Len(scanLog) :
          /\ MapGet(items, scanLog[i].item) # NoItem
          /\ ~LacksRequiredField(MapGet(items, scanLog[i].item)))
  /\ [][(response' # response /\ response'.route = "POST /api/items"
                              /\ response'.status = 400) =>
          /\ items' = items
          /\ matches' = matches
          /\ emitted' = emitted
          /\ scanLog' = scanLog
          /\ lastCall' = lastCall
          /\ awaiting' = awaiting]_vars

\* a submission was rejected after earlier ones had stored items and matches
C12_Witness ==
  /\ response.route = "POST /api/items"
  /\ response.status = 400
  /\ Len(items) > Len(SampleItems)
  /\ matches # <<>>

IdsOf(records) == {records[i].id : i \in 1..Len(records)}

\* C13: a second findPotentialMatches call on the same item against the
\* unchanged item store computes the same confidence for every candidate and
\* appends, for each record of the first call, a record with the same pair and
\* confidence under a different id; the records stored before it, the first
\* call's among them, stay as they were.
C13_RerunAppendsDistinctRecords ==
  rerun.done =>
    /\ rerun.scores = rerun.first.scores
    /\ Len(rerun.returned) = Len(rerun.first.returned)
    /\ \A i \in 1..Len(rerun.returned) :
         /\ rerun.returned[i].lostItemId = rerun.first.returned[i].lostItemId
         /\ rerun.returned[i].foundItemId = rerun.first.returned[i].foundItemId
         /\ rerun.returned[i].confidence = rerun.first.returned[i].confidence
         /\ rerun.returned[i].id # rerun.first.returned[i].id
         /\ rerun.returned[i] \in MatchSet
         /\ rerun.first.returned[i] \in MatchSet
    /\ IdsOf(rerun.returned) \cap IdsOf(rerun.before) = {}
    /\ Cardinality(IdsOf(rerun.returned)) = Len(rerun.returned)
    /\ IdsOf(rerun.first.returned) \subseteq IdsOf(rerun.before)
    /\ Len(matches) >= Len(rerun.before) + Len(rerun.returned)
    /\ \A i \in 1..Len(rerun.before) : matches[i] = rerun.before[i]

\* the second call created a record, so a pair has two records
C13_Witness ==
  /\ rerun.done
  /\ rerun.returned # <<>>
  /\ \E i, j \in 1..Len(matches) :
       /\ i # j
       /\ matches[i].lostItemId = matches[j].lostItemId
       /\ matches[i].foundItemId = matches[j].foundItemId
       /\ matches[i].lostItemId # matches[i].foundItemId

\* C14: with every item stored and scanned once by POST /api/items, the match
\* store holds at most one record for any (lostItemId, foundItemId) pair.
C14_AtMostOneRecordPerPair ==
  \A i, j \in 1..Len(matches) :
    (/\ matches[i].lostItemId = matches[j].lostItemId
     /\ matches[i].foundItemId = matches[j].foundItemId) => i = j

\* a lost item and a found item of one category, both active
OpposedPair(a, b) ==
  /\ {a.type, b.type} = {"lost", "found"}
  /\ a.category = b.category
  /\ a.status = "active" /\ b.status = "active"

\* the findPotentialMatches calls that scored the items a and b against each other
ScansOfPair(a, b) ==
  {k \in 1..Len(scanLog) :
     \/ scanLog[k].item = a.id /\ \E c \in 1..Len(scanLog[k].candidates) :
                                     scanLog[k].candidates[c] = b.id
     \/ scanLog[k].item = b.id /\ \E c \in 1..Len(scanLog[k].candidates) :
                                     scanLog[k].candidates[c] = a.id}

\* no submission of the item is suspended at its await
Completed(item) == \A k \in 1..Len(awaiting) : awaiting[k].item.id # item.id

RecordOfPair(a, b) ==
  \E r \in MatchSet :
    /\ r.lostItemId = (IF a.type = "lost" THEN a.id ELSE b.id)
    /\ r.foundItemId = (IF a.type = "found" THEN a.id ELSE b.id)

\* C15: an item is stored, its candidates are scored and their records are
\* stored in one step, so under every interleaving of submissions each pair of
\* stored active items of opposite type and equal category was scored exactly
\* once, by the submission of the one stored later, and once both submissions
\* have completed the pair has a record if the later item's confidence with
\* the earlier one is above 0.6.
C15_StoreAndScanAtomic ==
  /\ [](\A i, j \in 1..Len(items) :
          (i < j /\ OpposedPair(items[i], items[j])) =>
            /\ Cardinality(ScansOfPair(items[i], items[j])) = 1
            /\ \A k \in ScansOfPair(items[i], items[j]) : scanLog[k].item = items[j].id
            /\ (/\ Completed(items[i])
                /\ Completed(items[j])
                /\ aboveThreshold(calculateMatchConfidence(items[j], items[i])))
               => RecordOfPair(items[j], items[i]))
  /\ [][items' # items =>
          /\ Len(items') = Len(items) + 1
          /\ Len(scanLog') = Len(scanLog) + 1
          /\ scanLog'[Len(scanLog')].item = items'[Len(items')].id
          /\ lastCall'.store = items'
          /\ \A i \in 1..Len(lastCall'.returned) : lastCall'.returned[i] \in MatchSet']_vars

\* two submissions are in flight together: both are suspended at their await,
\* and the later item has been stored and scored against the earlier one, once,
\* and their record stored
C15_Witness ==
  /\ Len(items) = Len(SampleItems) + 2
  /\ OpposedPair(items[Len(items) - 1], items[Len(items)])
  /\ Cardinality(ScansOfPair(items[Len(items) - 1], items[Len(items)])) = 1
  /\ RecordOfPair(items[Len(items)], items[Len(items) - 1])
  /\ Len(awaiting) = 2
  /\ awaiting[1].item.id = items[Len(items) - 1].id
  /\ awaiting[2].item.id = items[Len(items)].id

\* C16: under every interleaving of registrations no two stored users have
\* the same email.
C16_UniqueEmails ==
  \A i, j \in 1..Len(users) : users[i].email = users[j].email => i = j

====
